---- MODULE Spec2Model ----
(***************************************************************************)
(* A model of the path tracer's two cores: the bounding-volume hierarchy   *)
(* of src/src/bvh.rs (construction and nearest-hit query) and the          *)
(* integrator and row-parallel render loop of src/src/main.rs.             *)
(*                                                                         *)
(* Coordinates and ray parameters are small integers, so the f32           *)
(* arithmetic of the source is exact here (no NaN, no rounding).           *)
(***************************************************************************)
EXTENDS Integers, Sequences, FiniteSets, Bags, TLC

VARIABLES
    \* ---- BVH (bvh.rs) ----
    bvhPc,      \* "start" | "built" | "rebuilt" | "panicked"
    hitable,    \* the Vec<Arc<dyn Hittable>> handed to BVH::new (object ids)
    tieOrder,   \* how this build's sort_unstable_by leaves equal elements
    builds,     \* number of BVH::new calls made so far
    tree,       \* the BVH returned by the first BVH::new (or its panic)
    tree2,      \* the BVH returned by a second BVH::new on the same input
    query,      \* the last (ray, t_min, t_max) given to BVH::hit
    hitResult,  \* what BVH::hit returned for it
    lastBox,    \* what BVH::bounding_box returned last
    \* ---- ray_color (main.rs 93-141) ----
    rcPc,       \* "idle" | "enter" | "return" | "done"
    rcStack,    \* the depth argument of every active ray_color call, outermost first
    rcHits,     \* world.hit calls made since the outermost call was entered
    rcRet,      \* what the call that returned last returned
    nLights,    \* lights.len()
    lightSel,   \* what the last Scatter branch did to select a light
    \* ---- main (main.rs 49-91) ----
    mainPc,     \* "start" | "setup" | "render" | "output" | "done"
    stdout,     \* the lines printed to standard output so far
    image,      \* the framebuffer: cell <<y, x>> with its value and write history
    rowPc,      \* per row task: "todo" | "run" | "done"
    rowX,       \* per row task: the loop variable x
    rowI,       \* per row task: the loop variable i
    pixel_color,\* per row task: the accumulator of the current pixel
    rowDraws    \* per row task: the random draws of the current pixel's samples

bvhVars == <<bvhPc, hitable, tieOrder, builds, tree, tree2, query, hitResult, lastBox>>

rayVars == <<rcPc, rcStack, rcHits, rcRet, nLights, lightSel>>

mainVars == <<mainPc, stdout, image, rowPc, rowX, rowI, pixel_color, rowDraws>>

vars == <<bvhVars, rayVars, mainVars>>

-----------------------------------------------------------------------------
(* Bounds of the model *)

\* longest object list handed to BVH::new
MaxObjs == 3

\* longest light list handed to ray_color
MaxLights == 2

\* image width in pixels, scaled down from the 500 of main.rs 33
NX == 2

\* samples per pixel, scaled down from the 1000 of main.rs 35
SAMPLES_PER_PIXEL == 2

-----------------------------------------------------------------------------
(* Option and small helpers *)

None == [kind |-> "None"]

IsSome(o) == o.kind = "Some"

Min2(a, b) == IF a <= b THEN a ELSE b

Max2(a, b) == IF a >= b THEN a ELSE b

-----------------------------------------------------------------------------
(* External collaborators: AABB and the scene objects (hittable.rs,        *)
(* aabb.rs, sphere.rs ... are not part of the sources at hand)             *)

SomeBox(lo, hi) == [kind |-> "Some", min |-> lo, max |-> hi]

\* AABB::surrounding_box: the smallest box containing both
SurroundingBox(a, b) ==
    SomeBox([i \in 1..3 |-> Min2(a.min[i], b.min[i])],
            [i \in 1..3 |-> Max2(a.max[i], b.max[i])])

\* the slab of box b on axis i (1..3) for ray r: entry and exit parameter
SlabLo(b, r, i) ==
    IF r.dir[i] > 0 THEN (b.min[i] - r.origin[i]) * r.dir[i]
                    ELSE (b.max[i] - r.origin[i]) * r.dir[i]

SlabHi(b, r, i) ==
    IF r.dir[i] > 0 THEN (b.max[i] - r.origin[i]) * r.dir[i]
                    ELSE (b.min[i] - r.origin[i]) * r.dir[i]

BoxEntry(b, r) == Max2(SlabLo(b, r, 1), Max2(SlabLo(b, r, 2), SlabLo(b, r, 3)))

BoxExit(b, r) == Min2(SlabHi(b, r, 1), Min2(SlabHi(b, r, 2), SlabHi(b, r, 3)))

\* AABB::hit: slab test of the ray restricted to [t_min, t_max]
AABBhit(b, r, t_min, t_max) ==
    Max2(BoxEntry(b, r), t_min) <= Min2(BoxExit(b, r), t_max)

\* The scene objects the inputs are drawn from: each has a bounding box (or
\* none: an unbounded primitive) and a surface that lies `inset` inside the
\* box along any ray.  Objects 1 and 3 have equal sort keys on axis 0,
\* objects 4 and 5 on every axis; {1, 4} has equal extent on every axis.
Scene ==
    [o \in 1..6 |->
        CASE o = 1 -> [box |-> SomeBox(<<0, 0, 0>>, <<1, 1, 1>>), inset |-> 0]
          [] o = 2 -> [box |-> SomeBox(<<2, 0, 0>>, <<3, 1, 1>>), inset |-> 0]
          [] o = 3 -> [box |-> SomeBox(<<0, 2, 0>>, <<1, 3, 1>>), inset |-> 0]
          [] o = 4 -> [box |-> SomeBox(<<1, 1, 1>>, <<2, 2, 2>>), inset |-> 0]
          [] o = 5 -> [box |-> SomeBox(<<0, 0, 0>>, <<3, 3, 3>>), inset |-> 1]
          [] o = 6 -> [box |-> None, inset |-> 0]]

ObjectIds == DOMAIN Scene

\* Hittable::bounding_box of a scene object
ObjBoundingBox(o) == Scene[o].box

\* Hittable::hit of a scene object: the nearer surface crossing if it lies in
\* [t_min, t_max], else the farther one if that does, else no hit
ObjHit(o, r, t_min, t_max) ==
    LET b    == Scene[o].box
        near == BoxEntry(b, r) + Scene[o].inset
        far  == BoxExit(b, r) - Scene[o].inset
    IN  IF ~IsSome(b) \/ near > far THEN None
        ELSE IF t_min <= near /\ near <= t_max
             THEN [kind |-> "Some", t |-> near, obj |-> o]
        ELSE IF t_min <= far /\ far <= t_max
             THEN [kind |-> "Some", t |-> far, obj |-> o]
        ELSE None

-----------------------------------------------------------------------------
(* BVH::new (bvh.rs 19-72) *)

\* stand-in for f32::MAX (and, negated, f32::MIN): beyond every coordinate
F32_MAX == 1000

Panic(m) == [kind |-> "Panic", msg |-> m]

IsPanic(x) == x.kind = "Panic"

Ok(v) == [kind |-> "Ok", v |-> v]

\* f32::partial_cmp on the exact values of the model
PartialCmp(a, b) == IF a < b THEN "Less" ELSE IF a > b THEN "Greater" ELSE "Equal"

\* the closure returned by box_compare(time0, time1, axis)
BoxCompare(a, b, axis) ==
    LET a_bbox == ObjBoundingBox(a)
        b_bbox == ObjBoundingBox(b)
    IN  IF IsSome(a_bbox) /\ IsSome(b_bbox)
        THEN PartialCmp(a_bbox.min[axis + 1] + a_bbox.max[axis + 1],
                        b_bbox.min[axis + 1] + b_bbox.max[axis + 1])
        ELSE "Panic"

\* whether the sort moves x before y when the comparator answers c.
\* sort_unstable_by is deterministic but does not promise the order of equal
\* elements: `ties` is the order the sort of this build leaves them in,
\* "kept" (input order) or "swapped", the same in every call of a run
MovesBefore(c, ties) == c = "Less" \/ (c = "Equal" /\ ties = "swapped")

RECURSIVE InsertHitable(_, _, _, _)
\* insert x into the sorted prefix s, comparing from its right end
InsertHitable(s, x, axis, ties) ==
    IF s = <<>> THEN Ok(<<x>>)
    ELSE LET c == BoxCompare(x, s[Len(s)], axis)
         IN  IF c = "Panic" THEN Panic("no bounding box in bvh node")
             ELSE IF MovesBefore(c, ties)
                  THEN LET r == InsertHitable(SubSeq(s, 1, Len(s) - 1), x, axis, ties)
                       IN  IF IsPanic(r) THEN r ELSE Ok(Append(r.v, s[Len(s)]))
             ELSE Ok(Append(s, x))

RECURSIVE SortHitable(_, _, _)
\* hitable.sort_unstable_by(box_compare(time0, time1, axis)): a slice of
\* fewer than two elements is returned without a comparison
SortHitable(s, axis, ties) ==
    IF Len(s) < 2 THEN Ok(s)
    ELSE LET p == SortHitable(SubSeq(s, 1, Len(s) - 1), axis, ties)
         IN  IF IsPanic(p) THEN p ELSE InsertHitable(p.v, s[Len(s)], axis, ties)

RECURSIVE AxisFold(_, _, _)
\* the fold of axis_range over hitable[1..n]: (bmin, bmax)
AxisFold(h, n, axis) ==
    IF n = 0 THEN <<F32_MAX, -F32_MAX>>
    ELSE LET acc  == AxisFold(h, n - 1, axis)
             aabb == ObjBoundingBox(h[n])
         IN  IF IsSome(aabb)
             THEN <<Min2(acc[1], aabb.min[axis + 1]), Max2(acc[2], aabb.max[axis + 1])>>
             ELSE acc

AxisRange(h, axis) ==
    LET mm == AxisFold(h, Len(h), axis) IN mm[2] - mm[1]

RECURSIVE InsertAxisRange(_, _, _)
\* the comparator of line 49 is |a, b| b.1.partial_cmp(&a.1): descending
InsertAxisRange(s, x, ties) ==
    IF s = <<>> THEN <<x>>
    ELSE IF MovesBefore(PartialCmp(s[Len(s)][2], x[2]), ties)
         THEN Append(InsertAxisRange(SubSeq(s, 1, Len(s) - 1), x, ties), s[Len(s)])
         ELSE Append(s, x)

RECURSIVE SortAxisRanges(_, _)
SortAxisRanges(s, ties) ==
    IF Len(s) < 2 THEN s
    ELSE InsertAxisRange(SortAxisRanges(SubSeq(s, 1, Len(s) - 1), ties), s[Len(s)], ties)

\* a build in which the axis is not a function of the input alone: it
\* moves on with every construction (a per-call counter or random axis)
ChooseAxisPerCall(h, ties) == builds % 3

\* lines 45-51: the axis of largest extent
ChooseAxis(h, ties) ==
    LET axis_ranges == [a \in 1..3 |-> <<a - 1, AxisRange(h, a - 1)>>]
    IN  SortAxisRanges(axis_ranges, ties)[1][1]

\* a leaf that takes an object without a box as it is
NewLeafUnchecked(leaf) ==
    [kind |-> "Leaf", leaf |-> leaf, bbox |-> ObjBoundingBox(leaf)]

\* lines 57-64: a leaf, or the panic of an object without a box
NewLeaf(leaf) ==
    LET bbox == ObjBoundingBox(leaf)
    IN  IF IsSome(bbox) THEN [kind |-> "Leaf", leaf |-> leaf, bbox |-> bbox]
        ELSE Panic("no bounding box in bvh node")

\* a drain that starts one element late
DrainFromLate(s, len) == SubSeq(s, (len \div 2) + 2, len)

\* line 66: hitable.drain(len / 2..) takes the tail from index len / 2 on
DrainFrom(s, len) == SubSeq(s, (len \div 2) + 1, len)

\* what is left in hitable after the drain
Remaining(s, len) == SubSeq(s, 1, len \div 2)

\* a branch that caches its left child's box only
NewBranchLeftBox(left, right) ==
    [kind |-> "Branch", left |-> left, right |-> right, bbox |-> left.bbox]

\* lines 68-69
NewBranch(left, right) ==
    [kind |-> "Branch", left |-> left, right |-> right,
     bbox |-> SurroundingBox(left.bbox, right.bbox)]

RECURSIVE BVHnew(_, _)
BVHnew(h, ties) ==
    LET axis   == ChooseAxis(h, ties)
        sorted == SortHitable(h, axis, ties)
    IN  IF IsPanic(sorted) THEN sorted
        ELSE LET len == Len(sorted.v)
             IN  IF len = 0 THEN Panic("no elements in scene")
                 ELSE IF len = 1 THEN NewLeaf(sorted.v[1])
                 ELSE LET right == BVHnew(DrainFrom(sorted.v, len), ties)
                      IN  IF IsPanic(right) THEN right
                          ELSE LET left == BVHnew(Remaining(sorted.v, len), ties)
                               IN  IF IsPanic(left) THEN left
                                   ELSE NewBranch(left, right)

-----------------------------------------------------------------------------
(* impl Hittable for BVH (bvh.rs 75-95) *)

RECURSIVE BVHhitNoShrink(_, _, _, _)
\* a query that gives the right child the caller's t_max
BVHhitNoShrink(node, r, t_min, t_max) ==
    IF AABBhit(node.bbox, r, t_min, t_max)
    THEN IF node.kind = "Leaf" THEN ObjHit(node.leaf, r, t_min, t_max)
         ELSE LET left  == BVHhitNoShrink(node.left, r, t_min, t_max)
                  right == BVHhitNoShrink(node.right, r, t_min, t_max)
              IN  IF IsSome(right) THEN right ELSE left
    ELSE None

RECURSIVE BVHhit(_, _, _, _)
BVHhit(node, r, t_min, t_max) ==
    IF AABBhit(node.bbox, r, t_min, t_max)
    THEN IF node.kind = "Leaf" THEN ObjHit(node.leaf, r, t_min, t_max)
         ELSE LET left   == BVHhit(node.left, r, t_min, t_max)
                  t_max2 == IF IsSome(left) THEN left.t ELSE t_max
                  right  == BVHhit(node.right, r, t_min, t_max2)
              IN  IF IsSome(right) THEN right ELSE left
    ELSE None

BVHboundingBox(node) == node.bbox

-----------------------------------------------------------------------------
(* ray_color (main.rs 93-141) *)

MAX_DEPTH == 50

Top(st) == st[Len(st)]

\* a base case that lets depth 0 through
IsBaseCaseBelowZero(depth) == depth < 0

\* line 94
IsBaseCase(depth) == depth <= 0

\* a selection that takes the first light of any non-empty list
LightObjPdfFirstOfAny(n, pick) ==
    IF n >= 1
    THEN [path |-> "first", rng |-> FALSE, light |-> [kind |-> "Some", idx |-> 1]]
    ELSE [path |-> "choose", rng |-> TRUE, light |-> None]

\* lines 110-115: light_obj_pdf for a list of n lights; pick is the index the
\* random generator yields when the slice is not empty
LightObjPdf(n, pick) ==
    IF n = 1
    THEN [path |-> "first", rng |-> FALSE, light |-> [kind |-> "Some", idx |-> 1]]
    ELSE [path |-> "choose", rng |-> TRUE,
          light |-> IF n = 0 THEN None ELSE [kind |-> "Some", idx |-> pick]]

\* lines 117-123: the density sampled from
MakePdf(light_obj_pdf) ==
    IF IsSome(light_obj_pdf)
    THEN [kind |-> "MixturePDF", light |-> light_obj_pdf.idx]
    ELSE [kind |-> "CosinePDF"]

NoSel == [kind |-> "None"]

RayInit ==
    /\ rcPc = "idle"
    /\ rcStack = <<>>
    /\ rcHits = 0
    /\ rcRet = "none"
    /\ nLights \in 0..MaxLights
    /\ lightSel = NoSel

RayIdle ==
    /\ rcPc = "idle"
    /\ rcStack = <<>>
    /\ rcHits = 0
    /\ rcRet = "none"
    /\ nLights = 0
    /\ lightSel = NoSel

\* main.rs 73: ray_color(r, background, &world, &lights, MAX_DEPTH)
RayColorCall ==
    /\ rcPc \in {"idle", "done"}
    /\ rcStack' = <<MAX_DEPTH>>
    /\ rcHits' = 0
    /\ rcRet' = "none"
    /\ lightSel' = NoSel
    /\ rcPc' = "enter"
    /\ UNCHANGED nLights
    /\ UNCHANGED <<bvhVars, mainVars>>

\* lines 94-96: return Color::new_empty()
BaseCase ==
    /\ rcPc = "enter"
    /\ IsBaseCase(Top(rcStack))
    /\ rcRet' = "black"
    /\ rcPc' = "return"
    /\ UNCHANGED <<rcStack, rcHits, nLights, lightSel>>
    /\ UNCHANGED <<bvhVars, mainVars>>

\* lines 98, 137-139: world.hit finds nothing, return background
Miss ==
    /\ rcPc = "enter"
    /\ ~IsBaseCase(Top(rcStack))
    /\ rcHits' = rcHits + 1
    /\ rcRet' = "background"
    /\ rcPc' = "return"
    /\ UNCHANGED <<rcStack, nLights, lightSel>>
    /\ UNCHANGED <<bvhVars, mainVars>>

\* lines 98-102, 135: a hit whose material does not scatter, return emitted
Absorbed ==
    /\ rcPc = "enter"
    /\ ~IsBaseCase(Top(rcStack))
    /\ rcHits' = rcHits + 1
    /\ rcRet' = "emitted"
    /\ rcPc' = "return"
    /\ UNCHANGED <<rcStack, nLights, lightSel>>
    /\ UNCHANGED <<bvhVars, mainVars>>

\* lines 104-107: ray_color(specular_ray, ..., depth - 1)
Specular ==
    /\ rcPc = "enter"
    /\ ~IsBaseCase(Top(rcStack))
    /\ rcHits' = rcHits + 1
    /\ rcStack' = Append(rcStack, Top(rcStack) - 1)
    /\ UNCHANGED <<rcPc, rcRet, nLights, lightSel>>
    /\ UNCHANGED <<bvhVars, mainVars>>

\* lines 109-130: select a light, build the density, generate the scattered
\* ray and call ray_color(scattered, ..., depth - 1)
Scatter ==
    /\ rcPc = "enter"
    /\ ~IsBaseCase(Top(rcStack))
    /\ rcHits' = rcHits + 1
    /\ \E pick \in 1..Max2(nLights, 1) :
         LET light_obj_pdf == LightObjPdf(nLights, pick)
         IN  lightSel' = [kind |-> "Some", path |-> light_obj_pdf.path,
                          rng |-> light_obj_pdf.rng, light |-> light_obj_pdf.light,
                          pdf |-> MakePdf(light_obj_pdf.light)]
    /\ rcStack' = Append(rcStack, Top(rcStack) - 1)
    /\ UNCHANGED <<rcPc, rcRet, nLights>>
    /\ UNCHANGED <<bvhVars, mainVars>>

\* the innermost call returns; a caller computes its own value from it
\* (lines 105-106, 128-130) and returns in turn
Return ==
    /\ rcPc = "return"
    /\ rcStack' = SubSeq(rcStack, 1, Len(rcStack) - 1)
    /\ rcPc' = IF Len(rcStack) = 1 THEN "done" ELSE "return"
    /\ rcRet' = IF Len(rcStack) = 1 THEN rcRet ELSE "product"
    /\ UNCHANGED <<rcHits, nLights, lightSel>>
    /\ UNCHANGED <<bvhVars, mainVars>>

-----------------------------------------------------------------------------
(* main (main.rs 32-91) *)

ASPECT_RATIO == 1

\* line 34
NY == NX \div ASPECT_RATIO

Rows == 0..(NY - 1)

Cols == 0..(NX - 1)

\* what the primary ray of sample i of pixel (x, y) hits in the scene: the
\* left column looks at a diffuse wall, the top right pixel at the light on
\* its even samples, everything else at nothing
Surface(x, y, i) ==
    IF x = 0 THEN "diffuse"
    ELSE IF y = NY - 1 /\ x = NX - 1 /\ i % 2 = 0 THEN "light"
    ELSE "none"

\* the values the random generator can yield inside ray_color for that
\* sample: only a Scatter branch draws (pdf.generate())
DrawsFor(x, y, i) == IF Surface(x, y, i) = "diffuse" THEN {0, 1} ELSE {0}

\* ray_color for that sample, as a radiance in {0, 1}: the light emits 1,
\* a miss returns the black background, and a diffuse hit returns what its
\* scattered ray finds: the light if the draw sends it there
RayColorValue(x, y, i, draw) ==
    CASE Surface(x, y, i) = "light"   -> 1
      [] Surface(x, y, i) = "diffuse" -> draw
      [] OTHER                        -> 0

\* Vec3::calc_color(pixel_color, SAMPLES_PER_PIXEL): the average, scaled to
\* the channel range and clamped
CalcColor(sum, samples) == Min2((255 * sum) \div samples, 255)

\* `as u8` on a channel: a saturating conversion
AsU8(v) == IF v < 0 THEN 0 ELSE IF v > 255 THEN 255 ELSE v

\* a store into the transposed cell
CellIndexTransposed(y, x) == <<x, y>>

\* line 76: image[y][x]
CellIndex(y, x) == <<y, x>>

\* an accumulator that is carried over to the next pixel
NewPixelColorCarried(prev) == prev

\* line 66: let mut pixel_color = Color::new(0.0, 0.0, 0.0)
NewPixelColor(prev) == 0

\* a loop that is left as soon as some row is finished
JoinedAny == \E y \in Rows : rowPc[y] = "done"

\* line 79: for_each returns when the closure has returned for every y
Joined == \A y \in Rows : rowPc[y] = "done"

\* lines 55-57: Box::new([Vec3::new_empty(); NX]) for each of the NY rows;
\* make_array! writes every row with ptr::write before anything reads it
NewImage ==
    [c \in Rows \X Cols |-> [val |-> 0, writes |-> 0, by |-> -1, samples |-> 0, draws |-> <<>>]]

MainInit ==
    /\ mainPc = "start"
    /\ stdout = <<>>
    /\ image = NewImage
    /\ rowPc = [y \in Rows |-> "todo"]
    /\ rowX = [y \in Rows |-> 0]
    /\ rowI = [y \in Rows |-> 0]
    /\ pixel_color = [y \in Rows |-> 0]
    /\ rowDraws = [y \in Rows |-> <<>>]

MainIdle ==
    /\ mainPc = "start"
    /\ stdout = <<>>
    /\ image = <<>>
    /\ rowPc = <<>>
    /\ rowX = <<>>
    /\ rowI = <<>>
    /\ pixel_color = <<>>
    /\ rowDraws = <<>>

\* line 50: println!("P3\n{} {}\n255", NX, NY)
PrintHeader ==
    /\ mainPc = "start"
    /\ stdout' = stdout \o <<[line |-> "format", tag |-> "P3"],
                             [line |-> "dims", nx |-> NX, ny |-> NY],
                             [line |-> "maxval", v |-> 255]>>
    /\ mainPc' = "setup"
    /\ UNCHANGED <<image, rowPc, rowX, rowI, pixel_color, rowDraws>>
    /\ UNCHANGED <<bvhVars, rayVars>>

\* lines 52-61: the scene, the framebuffer and the Halton sequences
Setup ==
    /\ mainPc = "setup"
    /\ image' = NewImage
    /\ mainPc' = "render"
    /\ UNCHANGED <<stdout, rowPc, rowX, rowI, pixel_color, rowDraws>>
    /\ UNCHANGED <<bvhVars, rayVars>>

\* lines 63-66: a worker takes row y and enters its first pixel
StartRow(y) ==
    /\ mainPc = "render"
    /\ rowPc[y] = "todo"
    /\ rowPc' = [rowPc EXCEPT ![y] = "run"]
    /\ rowX' = [rowX EXCEPT ![y] = 0]
    /\ rowI' = [rowI EXCEPT ![y] = 0]
    /\ pixel_color' = [pixel_color EXCEPT ![y] = NewPixelColor(@)]
    /\ rowDraws' = [rowDraws EXCEPT ![y] = <<>>]
    /\ UNCHANGED <<mainPc, stdout, image>>
    /\ UNCHANGED <<bvhVars, rayVars>>

\* lines 68-74: one sample of the current pixel
Sample(y) ==
    /\ rowPc[y] = "run"
    /\ rowI[y] < SAMPLES_PER_PIXEL
    /\ \E draw \in DrawsFor(rowX[y], y, rowI[y]) :
         /\ pixel_color' = [pixel_color EXCEPT
                              ![y] = @ + RayColorValue(rowX[y], y, rowI[y], draw)]
         /\ rowDraws' = [rowDraws EXCEPT ![y] = Append(@, draw)]
    /\ rowI' = [rowI EXCEPT ![y] = @ + 1]
    /\ UNCHANGED <<mainPc, stdout, image, rowPc, rowX>>
    /\ UNCHANGED <<bvhVars, rayVars>>

\* lines 76-78 and the loop header of line 65: store the pixel (the value
\* is computed first, then the mutex is taken, the cell stored and the guard
\* dropped at the end of the statement: one atomic step); then go to the
\* next pixel of the row, or finish the row
WritePixel(y) ==
    /\ rowPc[y] = "run"
    /\ rowI[y] = SAMPLES_PER_PIXEL
    /\ image' = [image EXCEPT
                   ![CellIndex(y, rowX[y])] =
                       [val     |-> CalcColor(pixel_color[y], SAMPLES_PER_PIXEL),
                        writes  |-> @.writes + 1,
                        by      |-> y,
                        samples |-> rowI[y],
                        draws   |-> rowDraws[y]]]
    /\ rowX' = [rowX EXCEPT ![y] = @ + 1]
    /\ rowPc' = [rowPc EXCEPT ![y] = IF rowX[y] + 1 = NX THEN "done" ELSE "run"]
    /\ rowI' = [rowI EXCEPT ![y] = 0]
    /\ pixel_color' = [pixel_color EXCEPT ![y] = NewPixelColor(@)]
    /\ rowDraws' = [rowDraws EXCEPT ![y] = <<>>]
    /\ UNCHANGED <<mainPc, stdout>>
    /\ UNCHANGED <<bvhVars, rayVars>>

\* lines 79-82: the parallel loop returns
Join ==
    /\ mainPc = "render"
    /\ Joined
    /\ mainPc' = "output"
    /\ UNCHANGED <<stdout, image, rowPc, rowX, rowI, pixel_color, rowDraws>>
    /\ UNCHANGED <<bvhVars, rayVars>>

\* the pixels printed so far
PixelsOut == Len(stdout) - 3

\* lines 83-90: the next pixel line, rows from the last to the first
OutputPixel ==
    /\ mainPc = "output"
    /\ LET y == (NY - 1) - (PixelsOut \div NX)
           x == PixelsOut % NX
           c == AsU8(image[<<y, x>>].val)
       IN  stdout' = Append(stdout, [line |-> "pixel", y |-> y, x |-> x,
                                     r |-> c, g |-> c, b |-> c])
    /\ mainPc' = IF PixelsOut + 1 = NX * NY THEN "done" ELSE "output"
    /\ UNCHANGED <<image, rowPc, rowX, rowI, pixel_color, rowDraws>>
    /\ UNCHANGED <<bvhVars, rayVars>>

-----------------------------------------------------------------------------
(* BVH: the inputs and the operations *)

RECURSIVE SeqsUpTo(_, _)
SeqsUpTo(S, n) ==
    IF n = 0 THEN {<<>>}
    ELSE LET shorter == SeqsUpTo(S, n - 1)
         IN  shorter \cup {Append(s, x) : s \in {t \in shorter : Len(t) = n - 1}, x \in S}

RayOrigins ==
    {<<-1, -1, -1>>, <<0, -1, -1>>, <<-1, 4, -1>>, <<4, 4, 4>>}

RayDirs == {<<1, 1, 1>>, <<1, -1, 1>>, <<-1, -1, -1>>}

Rays == [origin : RayOrigins, dir : RayDirs]

TMins == {0, 2}

TMaxs == {2, 6}

NoQuery == [kind |-> "None"]

BVHInit ==
    /\ bvhPc = "start"
    /\ hitable \in SeqsUpTo(ObjectIds, MaxObjs)
    /\ tieOrder \in {"kept", "swapped"}
    /\ builds = 0
    /\ tree = None
    /\ tree2 = None
    /\ query = NoQuery
    /\ hitResult = None
    /\ lastBox = None

BVHIdle ==
    /\ bvhPc = "start"
    /\ hitable = <<>>
    /\ tieOrder = "kept"
    /\ builds = 0
    /\ tree = None
    /\ tree2 = None
    /\ query = NoQuery
    /\ hitResult = None
    /\ lastBox = None

\* let bvh = BVH::new(hitable, time0, time1), which may panic
Build ==
    /\ bvhPc = "start"
    /\ builds' = builds + 1
    /\ LET bvh == BVHnew(hitable, tieOrder)
       IN  /\ tree' = bvh
           /\ bvhPc' = IF IsPanic(bvh) THEN "panicked" ELSE "built"
    /\ UNCHANGED <<hitable, tieOrder, tree2, query, hitResult, lastBox>>
    /\ UNCHANGED <<rayVars, mainVars>>

\* a second BVH::new on the same objects in the same order
Rebuild ==
    /\ bvhPc = "built"
    /\ builds' = builds + 1
    /\ tree2' = BVHnew(hitable, tieOrder)
    /\ bvhPc' = "rebuilt"
    /\ UNCHANGED <<hitable, tieOrder, tree, query, hitResult, lastBox>>
    /\ UNCHANGED <<rayVars, mainVars>>

\* bvh.hit(&r, t_min, t_max); one query is followed per run, since a query
\* changes nothing a later query reads
Hit ==
    /\ bvhPc \in {"built", "rebuilt"}
    /\ query = NoQuery
    /\ \E r \in Rays, t_min \in TMins, t_max \in TMaxs :
         /\ query' = [kind |-> "Some", r |-> r, t_min |-> t_min, t_max |-> t_max]
         /\ hitResult' = BVHhit(tree, r, t_min, t_max)
    /\ UNCHANGED <<bvhPc, hitable, tieOrder, builds, tree, tree2, lastBox>>
    /\ UNCHANGED <<rayVars, mainVars>>

\* bvh.bounding_box(t0, t1)
BoundingBox ==
    /\ bvhPc \in {"built", "rebuilt"}
    /\ lastBox' = BVHboundingBox(tree)
    /\ UNCHANGED <<bvhPc, hitable, tieOrder, builds, tree, tree2, query, hitResult>>
    /\ UNCHANGED <<rayVars, mainVars>>

BVHNext == Build \/ Rebuild \/ Hit \/ BoundingBox

BVHSpecInit == BVHInit /\ RayIdle /\ MainIdle

SpecBVH == BVHSpecInit /\ [][BVHNext]_vars

RayNext == RayColorCall \/ BaseCase \/ Miss \/ Absorbed \/ Specular \/ Scatter \/ Return

RaySpecInit == RayInit /\ BVHIdle /\ MainIdle

\* ray_color is sequential code: a call that can take a step takes it
SpecRay == RaySpecInit /\ [][RayNext]_vars /\ WF_vars(RayNext)

MainNext ==
    \/ PrintHeader
    \/ Setup
    \/ \E y \in Rows : StartRow(y)
    \/ \E y \in Rows : Sample(y)
    \/ \E y \in Rows : WritePixel(y)
    \/ Join
    \/ OutputPixel

RenderSpecInit == MainInit /\ BVHIdle /\ RayIdle

SpecRender == RenderSpecInit /\ [][MainNext]_vars

-----------------------------------------------------------------------------
(* Properties of the BVH *)

RECURSIVE Nodes(_)
\* a tree's nodes: itself and all its descendants
Nodes(t) ==
    IF t.kind = "Branch" THEN {t} \cup Nodes(t.left) \cup Nodes(t.right)
    ELSE IF t.kind = "Leaf" THEN {t}
    ELSE {}

RECURSIVE LeafSeq(_)
\* the objects in a tree's leaves, left to right
LeafSeq(t) ==
    IF t.kind = "Branch" THEN LeafSeq(t.left) \o LeafSeq(t.right)
    ELSE IF t.kind = "Leaf" THEN <<t.leaf>>
    ELSE <<>>

RECURSIVE NumBranches(_)
NumBranches(t) ==
    IF t.kind = "Branch" THEN 1 + NumBranches(t.left) + NumBranches(t.right) ELSE 0

RECURSIVE BoxesOf(_)
\* a tree's bounding boxes, level by level, without the objects
BoxesOf(t) ==
    IF t.kind = "Branch"
    THEN [bbox |-> t.bbox, left |-> BoxesOf(t.left), right |-> BoxesOf(t.right)]
    ELSE IF t.kind = "Leaf" THEN [bbox |-> t.bbox]
    ELSE [kind |-> t.kind]

\* how often x occurs in sequence s
Count(s, x) == Cardinality({i \in 1..Len(s) : s[i] = x})

\* box a contains box b
Contains(a, b) == \A i \in 1..3 : a.min[i] <= b.min[i] /\ b.max[i] <= a.max[i]

AllBounded(h) == \A i \in 1..Len(h) : IsSome(ObjBoundingBox(h[i]))

\* the hits found by testing every object of the list by itself
EachHit(h, q) ==
    {x \in {ObjHit(h[i], q.r, q.t_min, q.t_max) : i \in 1..Len(h)} : IsSome(x)}

\* C1: for a tree built from a non-empty list of bounded objects, BVH::hit
\* returns a hit exactly when some object of the list is hit in the range,
\* and the t of the returned hit is the least t over the objects tested one
\* by one (the scene objects return t within the range only, and an
\* object's box is hit whenever the object is).
C1_HitIsNearest ==
    IsSome(query) =>
        LET each == EachHit(hitable, query)
        IN  /\ IsSome(hitResult) <=> each # {}
            /\ IsSome(hitResult) =>
                 /\ hitResult \in each
                 /\ \A x \in each : hitResult.t <= x.t

\* C1 witness: a query on a branch whose two children are both hit, the
\* right one strictly nearer, by objects at different distances
C1_Witness ==
    /\ IsSome(query)
    /\ tree.kind = "Branch"
    /\ LET l == BVHhit(tree.left, query.r, query.t_min, query.t_max)
           r == BVHhit(tree.right, query.r, query.t_min, query.t_max)
       IN  IsSome(l) /\ IsSome(r) /\ r.t < l.t /\ hitResult = r
    /\ \E x, y \in EachHit(hitable, query) : x.t < y.t

\* every node's cached box: a leaf's is its object's, a branch's is the
\* union of its children's and contains the box of each descendant
BoxesNested(t) ==
    \A n \in Nodes(t) :
        /\ n.kind = "Leaf" => n.bbox = ObjBoundingBox(n.leaf)
        /\ n.kind = "Branch" => n.bbox = SurroundingBox(n.left.bbox, n.right.bbox)
        /\ \A d \in Nodes(n) : Contains(n.bbox, d.bbox)

\* C2: in every tree BVH::new returns, each node's cached box contains the
\* box of each of its descendants (a leaf's box is its object's, a branch's
\* the union of its children's), bounding_box returns the cached root box,
\* and no operation changes the tree once it is constructed.
C2_BoxesNestedAndFrozen ==
    /\ [](BoxesNested(tree) /\ BoxesNested(tree2))
    /\ [](IsSome(lastBox) => lastBox = tree.bbox)
    /\ [][bvhPc # "start" => tree' = tree]_vars

\* C2 witness: a tree of three leaves has been built and queried
C2_Witness ==
    /\ bvhPc = "built"
    /\ tree.kind = "Branch"
    /\ tree.right.kind = "Branch"
    /\ tree.bbox # tree.left.bbox
    /\ IsSome(query)
    /\ IsSome(lastBox)

\* C3: BVH::new on an empty list, or on a list of any length holding an
\* object without a bounding box at any position, panics and returns no tree.
C3_FatalConstruction ==
    (bvhPc # "start" /\ (hitable = <<>> \/ ~AllBounded(hitable)))
        => (bvhPc = "panicked" /\ IsPanic(tree))

\* C3 witness: the construction panicked on three objects of which only the
\* middle one is unbounded
C3_Witness ==
    /\ bvhPc = "panicked"
    /\ Len(hitable) = 3
    /\ ~IsSome(ObjBoundingBox(hitable[2]))
    /\ IsSome(ObjBoundingBox(hitable[1]))
    /\ IsSome(ObjBoundingBox(hitable[3]))

\* C3 witness, second case: the construction panicked on the empty list
C3_WitnessEmpty == bvhPc = "panicked" /\ hitable = <<>>

\* Floor and ceiling of n / 2
Floor2(n) == n \div 2

Ceil2(n) == (n + 1) \div 2

\* C10: BVH::new on n >= 1 bounded objects finishes; every branch over m
\* leaves splits them into halves of sizes ceil(m/2) and floor(m/2); the
\* tree has n leaves holding each input object exactly as often as the
\* input does, and n - 1 branches.
C10_SplitKeepsEveryObject ==
    (bvhPc # "start" /\ hitable # <<>> /\ AllBounded(hitable)) =>
        /\ ~IsPanic(tree)
        /\ Len(LeafSeq(tree)) = Len(hitable)
        /\ \A o \in ObjectIds : Count(LeafSeq(tree), o) = Count(hitable, o)
        /\ NumBranches(tree) = Len(hitable) - 1
        /\ \A n \in Nodes(tree) :
             n.kind = "Branch" =>
                LET m == Len(LeafSeq(n))
                IN  {Len(LeafSeq(n.left)), Len(LeafSeq(n.right))} = {Ceil2(m), Floor2(m)}

\* C10 witness: a tree over three objects, one of them twice in the list
C10_Witness ==
    /\ bvhPc = "built"
    /\ Len(hitable) = 3
    /\ hitable[1] = hitable[3]
    /\ hitable[1] # hitable[2]
    /\ Len(LeafSeq(tree.right)) = 2
    /\ Len(LeafSeq(tree.left)) = 1

\* some two objects of h have equal sort keys on the axis chosen for h
HasKeyTie(h) ==
    \E i, j \in 1..Len(h) :
        i < j /\ h[i] # h[j] /\ BoxCompare(h[i], h[j], ChooseAxis(h, tieOrder)) = "Equal"

-----------------------------------------------------------------------------
(* Properties of ray_color *)

\* C4: ray_color terminates: every recursive call is made with depth - 1, a
\* call with depth <= 0 returns black without intersecting the world or
\* recursing, so below the call made with depth = MAX_DEPTH there are never
\* more than MAX_DEPTH nested recursive calls (and never more than MAX_DEPTH
\* world intersections), whatever the materials return.
C4_RayColorTerminates ==
    /\ [](/\ Len(rcStack) - 1 <= MAX_DEPTH
          /\ rcHits <= MAX_DEPTH
          /\ \A i \in 1..Len(rcStack) : rcStack[i] = MAX_DEPTH - (i - 1))
    /\ [][(rcPc = "enter" /\ Top(rcStack) <= 0)
            => (rcPc' = "return" /\ rcRet' = "black" /\ rcHits' = rcHits
                /\ rcStack' = rcStack)]_vars
    /\ (rcPc = "enter") ~> (rcPc = "done")

\* C4 witness: the deepest call, made with depth 0 below MAX_DEPTH recursive
\* calls, has returned black
C4_Witness ==
    /\ rcPc = "return"
    /\ Len(rcStack) = MAX_DEPTH + 1
    /\ Top(rcStack) = 0
    /\ rcRet = "black"
    /\ rcHits = MAX_DEPTH

\* C9 (as amended): in the Scatter branch, exactly one light is used
\* directly with no random generator; more than one light: one is picked by
\* the random generator and mixed with the material's density; an empty list
\* also takes the random-choice path (thread_rng is obtained and choose is
\* called, yielding nothing), builds no light density and samples the plain
\* cosine density.
C9_LightSelection ==
    IsSome(lightSel) =>
        /\ nLights = 1 =>
             /\ lightSel.path = "first" /\ ~lightSel.rng
             /\ lightSel.light = [kind |-> "Some", idx |-> 1]
             /\ lightSel.pdf = [kind |-> "MixturePDF", light |-> 1]
        /\ nLights > 1 =>
             /\ lightSel.path = "choose" /\ lightSel.rng
             /\ IsSome(lightSel.light) /\ lightSel.light.idx \in 1..nLights
             /\ lightSel.pdf = [kind |-> "MixturePDF", light |-> lightSel.light.idx]
        /\ nLights = 0 =>
             /\ lightSel.path = "choose" /\ lightSel.rng
             /\ lightSel.light = None
             /\ lightSel.pdf = [kind |-> "CosinePDF"]

\* C9 witness: a Scatter branch ran with an empty light list
C9_Witness ==
    /\ IsSome(lightSel)
    /\ nLights = 0
    /\ lightSel.pdf = [kind |-> "CosinePDF"]
    /\ Len(rcStack) >= 2

\* C9 witness, second case: with two lights the second was picked
C9_WitnessPicked ==
    /\ IsSome(lightSel)
    /\ nLights = 2
    /\ lightSel.light = [kind |-> "Some", idx |-> 2]

\* C9 (as stated): as above, but with an empty light list no light-selection
\* code path executes (neither first nor the random choice).
C9_NoSelectionWhenEmpty ==
    IsSome(lightSel) =>
        /\ nLights = 1 => (lightSel.path = "first" /\ ~lightSel.rng)
        /\ nLights > 1 => (lightSel.path = "choose" /\ lightSel.rng)
        /\ nLights = 0 =>
             /\ lightSel.path \notin {"first", "choose"} /\ ~lightSel.rng
             /\ lightSel.pdf = [kind |-> "CosinePDF"]

-----------------------------------------------------------------------------
(* Properties of the render loop and the output *)

Cells == Rows \X Cols

\* C5: in every interleaving of the row tasks, cell (x, y) is written exactly
\* once, by the task of row y, after all SAMPLES_PER_PIXEL samples of the
\* pixel were accumulated; no cell is written by two tasks, and every cell
\* has been written when the parallel loop is over.
C5_EachCellWrittenOnce ==
    \A c \in Cells :
        /\ image[c].writes <= 1
        /\ image[c].writes = 1 =>
             /\ image[c].by = c[1]
             /\ image[c].samples = SAMPLES_PER_PIXEL
             /\ Len(image[c].draws) = SAMPLES_PER_PIXEL
             /\ rowPc[c[1]] = "done" \/ (rowPc[c[1]] = "run" /\ rowX[c[1]] > c[2])
        /\ (rowPc[c[1]] = "done" \/ mainPc \in {"output", "done"}) => image[c].writes = 1

\* C5 witness: two row tasks are under way at once, each with its first
\* pixel stored and its second pixel partly sampled
C5_Witness ==
    /\ mainPc = "render"
    /\ \E y1, y2 \in Rows :
         /\ y1 # y2
         /\ rowPc[y1] = "run" /\ rowPc[y2] = "run"
         /\ image[<<y1, 0>>].writes = 1 /\ image[<<y2, 0>>].writes = 1
         /\ rowX[y1] = 1 /\ rowI[y1] = 1
         /\ rowX[y2] = 1 /\ rowI[y2] = 1

\* the lines of the stream that are pixel lines
PixelLines == {k \in 1..Len(stdout) : stdout[k].line = "pixel"}

\* C6 (as amended): no pixel line is emitted before every row task has
\* completed; the header (format tag, dimensions) and the maximum-value line
\* are emitted at the start of main, before any row task begins.
C6_PixelsAfterJoin ==
    /\ PixelLines # {} => \A y \in Rows : rowPc[y] = "done"
    /\ \A k \in PixelLines : k > 3
    /\ (\E y \in Rows : rowPc[y] # "todo") =>
          /\ Len(stdout) >= 3
          /\ stdout[1].line = "format"
          /\ stdout[2] = [line |-> "dims", nx |-> NX, ny |-> NY]
          /\ stdout[3].line = "maxval"

\* C6 witness: the header is out, a row task is still running and no pixel
\* line has been emitted
C6_Witness ==
    /\ Len(stdout) = 3
    /\ \E y \in Rows : rowPc[y] = "run"
    /\ \E y \in Rows : rowPc[y] = "done"

\* C6 witness, second case: the whole stream is out
C6_WitnessDone == mainPc = "done" /\ Len(stdout) = 3 + NX * NY

\* C6 (as stated): nothing of the image stream, header included, is emitted
\* before every row task has completed.
C6_NothingBeforeJoin ==
    stdout # <<>> => \A y \in Rows : rowPc[y] = "done"

RECURSIVE SumOfSamples(_, _, _, _)
\* the sum of ray_color over samples 0..n-1 of pixel (x, y) under draws d
SumOfSamples(x, y, d, n) ==
    IF n = 0 THEN 0
    ELSE SumOfSamples(x, y, d, n - 1) + RayColorValue(x, y, n - 1, d[n])

\* the value a pixel gets under draws d
PixelValue(x, y, d) == CalcColor(SumOfSamples(x, y, d, SAMPLES_PER_PIXEL), SAMPLES_PER_PIXEL)

\* every sequence of draws the samples of pixel (x, y) can make
AllDraws(x, y) ==
    {d \in [1..SAMPLES_PER_PIXEL -> {0, 1}] :
        \A i \in 1..SAMPLES_PER_PIXEL : d[i] \in DrawsFor(x, y, i - 1)}

====
